---- MODULE Spec2Model ----
(***************************************************************************)
(* ExecutedTemplate (constraint_generation/src/execution_data/             *)
(* executed_template.rs): the collectors filled by the add_* methods,      *)
(* insert_in_dag (build_signals, build_connexions, build_constraints),     *)
(* export_to_circuit, the POS lattice and templates_in_mixed_arrays.       *)
(*                                                                         *)
(* The fields code, template_name, report_name, parameter_instances and    *)
(* is_parallel are set by new, never written again and never read by the   *)
(* operations below except to be copied into the result; they are left out.*)
(***************************************************************************)
EXTENDS Integers, Sequences, FiniteSets, TLC

VARIABLES
    pc,                   \* position in the life cycle of the value
    public_inputs,        \* HashSet<String>
    inputs,               \* SignalCollector
    outputs,              \* SignalCollector
    intermediates,        \* SignalCollector
    components,           \* ComponentCollector
    constraints,          \* Vec<Constraint>
    connexions,           \* Vec<Connexion>
    has_parallel_sub_cmp, \* bool
    dag,                  \* the DAG passed by &mut to insert_in_dag
    returned,             \* value returned by the last call
    probe,                \* arguments of the function applied on its own
    declared              \* history: the add_component calls, in order

vars == <<pc, public_inputs, inputs, outputs, intermediates, components,
          constraints, connexions, has_parallel_sub_cmp, dag, returned, probe,
          declared>>

\* ------------------------------------------------------------------ bounds

MaxSignals == 3
MaxRank == 3
MaxDim == 2
MaxCalls == 4

\* ------------------------------------------------------------------ inputs

SignalNames == {"a", "b"}
\* shapes handed to add_input / add_output / add_intermediate
Shapes == {<<>>, <<0>>, <<MaxDim>>, <<MaxDim, MaxDim>>}
\* component array names in the order String::cmp gives them
ComponentNames == <<"c", "d">>
IndexVectors == {<<0>>, <<1>>}
\* the catalogue of already exported instances handed to export_to_circuit,
\* and the nodes the DAG already holds for them
Instances ==
    << [template_header |-> "T_0", template_name |-> "T",
        in_number |-> 2, in_component_number |-> 1, parallel |-> FALSE],
       [template_header |-> "U_1", template_name |-> "U",
        in_number |-> 3, in_component_number |-> 2, parallel |-> TRUE] >>
TemplateIds == 0 .. (Len(Instances) - 1)

None == [kind |-> "none"]
Abort == [kind |-> "abort"]

\* ------------------------------------------------------------------ DAG

EmptyDag ==
    [has_node |-> FALSE, signals |-> <<>>, out |-> 0, out_component |-> 0,
     edges |-> <<>>, constraints |-> <<>>]

add_node(d) == [d EXCEPT !.has_node = TRUE]

add_input(d, name, is_public) ==
    [d EXCEPT !.signals = Append(@, [kind |-> "input", name |-> name,
                                     is_public |-> is_public]),
              !.out = @ + 1]

add_output(d, name) ==
    [d EXCEPT !.signals = Append(@, [kind |-> "output", name |-> name,
                                     is_public |-> FALSE]),
              !.out = @ + 1]

add_intermediate(d, name) ==
    [d EXCEPT !.signals = Append(@, [kind |-> "intermediate", name |-> name,
                                     is_public |-> FALSE]),
              !.out = @ + 1]

get_out(d) == d.out

get_out_component(d) == d.out_component

\* the edge keeps the counters read around it
add_edge(d, to, label) ==
    [d EXCEPT !.out = @ + Instances[to + 1].in_number,
              !.out_component = @ + Instances[to + 1].in_component_number,
              !.edges = Append(@, [to |-> to, label |-> label,
                                   out_before |-> d.out,
                                   out_after |-> d.out + Instances[to + 1].in_number,
                                   cmp_before |-> d.out_component,
                                   cmp_after |-> d.out_component
                                       + Instances[to + 1].in_component_number])]

dag_has_parallel_sub_cmp(d) ==
    \E i \in 1 .. Len(d.edges) : Instances[d.edges[i].to + 1].parallel

add_constraint_to_dag(d, c) == [d EXCEPT !.constraints = Append(@, c)]

\* --------------------------------------------------- generate_symbols

RECURSIVE generate_symbols(_, _, _)
RECURSIVE generate_symbols_loop(_, _, _, _)

\* a loop whose body runs once before the bound is looked at
RECURSIVE generate_symbols_loop_do_while(_, _, _, _)
generate_symbols_loop_do_while(d, state, config, index) ==
    IF index = 0 \/ index < config.dimensions[state.dim + 1]
    THEN LET new_state ==
                 [name |-> state.name \o "[" \o ToString(index) \o "]",
                  dim |-> state.dim + 1]
         IN generate_symbols_loop_do_while(generate_symbols(d, new_state, config),
                                           state, config, index + 1)
    ELSE d

\* the while loop of the else branch, entered with index
generate_symbols_loop(d, state, config, index) ==
    IF index < config.dimensions[state.dim + 1]
    THEN LET new_state ==
                 [name |-> state.name \o "[" \o ToString(index) \o "]",
                  dim |-> state.dim + 1]
         IN generate_symbols_loop(generate_symbols(d, new_state, config),
                                  state, config, index + 1)
    ELSE d

generate_symbols(d, state, config) ==
    IF state.dim = Len(config.dimensions)
    THEN IF config.signal_type = 0
         THEN add_input(d, state.name, config.is_public)
         ELSE IF config.signal_type = 1
         THEN add_output(d, state.name)
         ELSE IF config.signal_type = 2
         THEN add_intermediate(d, state.name)
         ELSE d
    ELSE generate_symbols_loop(d, state, config, 0)

\* ------------------------------------------------------ build_signals

RECURSIVE build_signals_outputs(_, _)
build_signals_outputs(d, outs) ==
    IF outs = <<>> THEN d
    ELSE build_signals_outputs(
             generate_symbols(d, [name |-> Head(outs).name, dim |-> 0],
                              [signal_type |-> 1, dimensions |-> Head(outs).dims,
                               is_public |-> FALSE]),
             Tail(outs))

\* both loops over self.inputs(): is_public selects the loop
RECURSIVE build_signals_inputs(_, _, _, _)
build_signals_inputs(d, ins, public, is_public) ==
    IF ins = <<>> THEN d
    ELSE build_signals_inputs(
             IF (Head(ins).name \in public) = is_public
             THEN generate_symbols(d, [name |-> Head(ins).name, dim |-> 0],
                                   [signal_type |-> 0, dimensions |-> Head(ins).dims,
                                    is_public |-> is_public])
             ELSE d,
             Tail(ins), public, is_public)

RECURSIVE build_signals_intermediates(_, _)
build_signals_intermediates(d, ints) ==
    IF ints = <<>> THEN d
    ELSE build_signals_intermediates(
             generate_symbols(d, [name |-> Head(ints).name, dim |-> 0],
                              [signal_type |-> 2, dimensions |-> Head(ints).dims,
                               is_public |-> FALSE]),
             Tail(ints))

\* the two loops over the inputs in the other order
build_signals_private_first(d, outs, ins, public, ints) ==
    LET d1 == build_signals_outputs(d, outs)
        d2 == build_signals_inputs(d1, ins, public, FALSE)
        d3 == build_signals_inputs(d2, ins, public, TRUE)
    IN build_signals_intermediates(d3, ints)

build_signals(d, outs, ins, public, ints) ==
    LET d1 == build_signals_outputs(d, outs)
        d2 == build_signals_inputs(d1, ins, public, TRUE)
        d3 == build_signals_inputs(d2, ins, public, FALSE)
    IN build_signals_intermediates(d3, ints)

\* --------------------------------------------------- build_connexions

Connexion(component_name, data) ==
    [full_name |-> component_name, inspect |-> data, dag_offset |-> 0,
     dag_component_offset |-> 0, dag_jump |-> 0, dag_component_jump |-> 0]

\* position of a name in String order
NameRank(name) == CHOOSE i \in 1 .. Len(ComponentNames) : ComponentNames[i] = name

\* Ord::cmp on String: -1 Less, 0 Equal, 1 Greater
string_cmp(l, r) ==
    IF NameRank(l) < NameRank(r) THEN -1
    ELSE IF NameRank(l) > NameRank(r) THEN 1 ELSE 0

\* Ord::cmp on Vec<usize>: lexicographic, a proper prefix is Less
RECURSIVE vec_cmp(_, _)
vec_cmp(l, r) ==
    IF l = <<>> /\ r = <<>> THEN 0
    ELSE IF l = <<>> THEN -1
    ELSE IF r = <<>> THEN 1
    ELSE IF Head(l) < Head(r) THEN -1
    ELSE IF Head(l) > Head(r) THEN 1
    ELSE vec_cmp(Tail(l), Tail(r))

\* a comparison that looks at the array name only
connexion_cmp_name_only(l, r) == string_cmp(l.inspect.name, r.inspect.name)

\* the closure handed to sort_by
connexion_cmp(l, r) ==
    LET cmp_0 == string_cmp(l.inspect.name, r.inspect.name)
    IN IF cmp_0 = 0
       THEN vec_cmp(l.inspect.indexed_with, r.inspect.indexed_with)
       ELSE cmp_0

\* slice::sort_by is stable: an element goes after the elements not Greater
RECURSIVE sort_by(_)
sort_by(cnns) ==
    IF cnns = <<>> THEN <<>>
    ELSE LET n == Len(cnns)
             x == cnns[n]
             front == sort_by(SubSeq(cnns, 1, n - 1))
             k == Cardinality({i \in 1 .. (n - 1) : connexion_cmp(front[i], x) <= 0})
         IN SubSeq(front, 1, k) \o <<x>> \o SubSeq(front, k + 1, n - 1)

\* no filtering
filter_used_components_keep_all(cmps, cnns) == cmps

filter_used_components(cmps, cnns) ==
    LET used == {cnns[i].inspect.name : i \in 1 .. Len(cnns)}
        is_used(cmp) == cmp.name \in used
    IN SelectSeq(cmps, is_used)

\* the for loop over &mut self.connexions, from position i (1-based) on;
\* the result holds the connexions and the DAG
RECURSIVE build_connexions_loop(_, _, _)
build_connexions_loop(cnns, d, i) ==
    IF i > Len(cnns) THEN [connexions |-> cnns, dag |-> d]
    ELSE LET cnn == cnns[i]
             dag_offset == get_out(d)
             dag_component_offset == get_out_component(d)
             d1 == add_edge(d, cnn.inspect.goes_to, cnn.full_name)
             new == [cnn EXCEPT
                        !.dag_offset = dag_offset,
                        !.dag_component_offset = dag_component_offset,
                        !.dag_jump = get_out(d1) - dag_offset,
                        !.dag_component_jump =
                            get_out_component(d1) - dag_component_offset]
         IN build_connexions_loop([cnns EXCEPT ![i] = new], d1, i + 1)

build_connexions(cmps, cnns, d) ==
    LET sorted == sort_by(cnns)
        r == build_connexions_loop(sorted, d, 1)
    IN [components |-> filter_used_components(cmps, sorted),
        connexions |-> r.connexions,
        dag |-> r.dag,
        has_parallel_sub_cmp |-> dag_has_parallel_sub_cmp(r.dag)]

RECURSIVE build_constraints(_, _)
build_constraints(cs, d) ==
    IF cs = <<>> THEN d
    ELSE build_constraints(Tail(cs), add_constraint_to_dag(d, Head(cs)))

\* ------------------------------------------------------------------ POS

B == [tag |-> "B", v |-> 0]
T == [tag |-> "T", v |-> 0]
K(id) == [tag |-> "K", v |-> id]

\* two different Known values keep the left one
least_upper_bound_keep_left(l, r) ==
    IF l.tag = "K" /\ r.tag = "K" THEN K(l.v)
    ELSE IF l.tag = "B" THEN r
    ELSE IF r.tag = "B" THEN l
    ELSE T

least_upper_bound(l, r) ==
    IF l.tag = "K" /\ r.tag = "K" /\ l.v = r.v THEN K(l.v)
    ELSE IF l.tag = "B" THEN r
    ELSE IF r.tag = "B" THEN l
    ELSE T

\* HashMap::insert
map_insert(m, k, val) ==
    [x \in (DOMAIN m) \cup {k} |-> IF x = k THEN val ELSE m[x]]

\* HashMap::remove, the map that is left
map_remove(m, k) == [x \in (DOMAIN m) \ {k} |-> m[x]]

\* the second loop of apply_pos_to_connexions, from position i on
RECURSIVE apply_pos_fold(_, _, _)
apply_pos_fold(cnns, solution, i) ==
    IF i > Len(cnns) THEN solution
    ELSE LET data == cnns[i].inspect
             prev == solution[data.name]
             new == K(data.goes_to)
             val == least_upper_bound(prev, new)
         IN apply_pos_fold(cnns, map_insert(map_remove(solution, data.name),
                                            data.name, val), i + 1)

apply_pos_to_connexions(cnns) ==
    LET seeded == [name \in {cnns[i].inspect.name : i \in 1 .. Len(cnns)} |-> B]
    IN apply_pos_fold(cnns, seeded, 1)

\* the loop of mixed_components from position i on; Abort when
\* solution.get(..).unwrap() finds no entry
RECURSIVE mixed_components_loop(_, _, _, _)
mixed_components_loop(cmps, solution, mixed, i) ==
    IF i > Len(cmps) THEN [kind |-> "mixed", out |-> mixed]
    ELSE IF cmps[i].name \notin DOMAIN solution THEN Abort
    ELSE mixed_components_loop(cmps, solution,
             [mixed EXCEPT ![i] = mixed[i] \/ (solution[cmps[i].name] = T)],
             i + 1)

mixed_components(cmps, cnns) ==
    mixed_components_loop(cmps, apply_pos_to_connexions(cnns),
                          [i \in 1 .. Len(cmps) |-> FALSE], 1)

\* an entry written by each connexion instead of or-ed
RECURSIVE templates_in_mixed_arrays_loop_overwrite(_, _, _, _)
templates_in_mixed_arrays_loop_overwrite(cnns, solution, mixed, i) ==
    IF i > Len(cnns) THEN [kind |-> "mixed", out |-> mixed]
    ELSE LET data == cnns[i].inspect
         IN IF data.goes_to >= Len(mixed) THEN Abort
            ELSE templates_in_mixed_arrays_loop_overwrite(cnns, solution,
                     [mixed EXCEPT ![data.goes_to + 1] = (solution[data.name] = T)],
                     i + 1)

\* the loop of templates_in_mixed_arrays from position i on; the vector is
\* indexed from 0 in the code and from 1 here; Abort when mixed[data.goes_to]
\* is out of bounds
RECURSIVE templates_in_mixed_arrays_loop(_, _, _, _)
templates_in_mixed_arrays_loop(cnns, solution, mixed, i) ==
    IF i > Len(cnns) THEN [kind |-> "mixed", out |-> mixed]
    ELSE LET data == cnns[i].inspect
         IN IF data.goes_to >= Len(mixed) THEN Abort
            ELSE templates_in_mixed_arrays_loop(cnns, solution,
                     [mixed EXCEPT ![data.goes_to + 1] =
                         mixed[data.goes_to + 1] \/ (solution[data.name] = T)],
                     i + 1)

templates_in_mixed_arrays(cnns, no_templates) ==
    templates_in_mixed_arrays_loop(cnns, apply_pos_to_connexions(cnns),
                                   [t \in 1 .. no_templates |-> FALSE], 1)

\* ------------------------------------------------------ build_clusters

\* the inner loop: the first position from end on (0-based) that is
\* connexions.len() or holds another name
RECURSIVE run_end(_, _, _)
run_end(cnns, name, end) ==
    IF end = Len(cnns) THEN end
    ELSE IF cnns[end + 1].inspect.name # name THEN end
    ELSE run_end(cnns, name, end + 1)

\* cluster initialization from index (0-based) on; instances is the number
\* of instances in the catalogue; Abort when instances[instance_id] is out of
\* bounds
RECURSIVE cluster_initialization(_, _, _, _)
cluster_initialization(cnns, instances, cmp_data, index) ==
    IF ~(index < Len(cnns)) THEN [kind |-> "map", map |-> cmp_data]
    ELSE LET cnn == cnns[index + 1]
             instance_id == cnn.inspect.goes_to
         IN IF instance_id >= instances THEN Abort
            ELSE LET end == run_end(cnns, cnn.inspect.name, index)
                     cluster ==
                         [slice |-> <<index, end>>,
                          length |-> end - index,
                          cmp_name |-> cnn.inspect.name,
                          xtype |-> [kind |-> "Uniform",
                                     offset_jump |-> cnn.dag_jump,
                                     component_offset_jump |-> cnn.dag_component_jump,
                                     instance_id |-> instance_id,
                                     header |-> Instances[instance_id + 1].template_header,
                                     tmp_name |-> ""]]
                 IN cluster_initialization(cnns, instances,
                        map_insert(cmp_data, cnn.inspect.name, cluster), end)

\* cmp_data and result binding from index (0-based) on; Abort when
\* cmp_data.remove(..).unwrap() finds no entry
RECURSIVE result_binding(_, _, _, _, _, _)
result_binding(cmps, cnns, mixed, cmp_data, result, index) ==
    IF ~(index < Len(cmps)) THEN [kind |-> "clusters", out |-> result]
    ELSE LET cmp_name == cmps[index + 1].name
         IN IF cmp_name \notin DOMAIN cmp_data THEN Abort
            ELSE LET cluster == cmp_data[cmp_name]
                     start == cluster.slice[1]
                     tmp_id == cnns[start + 1].inspect.goes_to
                     tmp_name == Instances[tmp_id + 1].template_name
                     bound == IF mixed[index + 1]
                              THEN [cluster EXCEPT !.xtype =
                                       [kind |-> "Mixed", offset_jump |-> 0,
                                        component_offset_jump |-> 0,
                                        instance_id |-> 0, header |-> "",
                                        tmp_name |-> tmp_name]]
                              ELSE cluster
                 IN result_binding(cmps, cnns, mixed,
                        map_remove(cmp_data, cmp_name),
                        Append(result, bound), index + 1)

build_clusters(cmps, cnns, instances) ==
    LET mixed == mixed_components(cmps, cnns)
    IN IF mixed.kind = "abort" THEN Abort
       ELSE LET cmp_data == cluster_initialization(cnns, instances,
                                [x \in {} |-> None], 0)
            IN IF cmp_data.kind = "abort" THEN Abort
               ELSE result_binding(cmps, cnns, mixed.out, cmp_data.map, <<>>, 0)

\* --------------------------------------------------- export_to_circuit

\* Abort when instances[data.goes_to] is out of bounds; external_signals, a
\* copy of the target's signal list, is left out
RECURSIVE build_triggers(_, _, _)
build_triggers(instances, cnns, triggers) ==
    IF cnns = <<>> THEN [kind |-> "triggers", out |-> triggers]
    ELSE LET cnn == Head(cnns)
             data == cnn.inspect
         IN IF data.goes_to >= instances THEN Abort
            ELSE build_triggers(instances, Tail(cnns),
                     Append(triggers,
                            [offset |-> cnn.dag_offset,
                             component_offset |-> cnn.dag_component_offset,
                             component_name |-> data.name,
                             indexed_with |-> data.indexed_with,
                             runs |-> Instances[data.goes_to + 1].template_header,
                             template_id |-> data.goes_to]))

RECURSIVE build_components(_)
build_components(cmps) ==
    IF cmps = <<>> THEN <<>>
    ELSE <<[name |-> Head(cmps).name, lengths |-> Head(cmps).dims]>>
         \o build_components(Tail(cmps))

\* Signal::size: the product of the lengths, 1 for no length
RECURSIVE size(_)
size(lengths) ==
    IF lengths = <<>> THEN 1 ELSE Head(lengths) * size(Tail(lengths))

\* the partition of self.inputs into public and not_public
partition_inputs(ins, public) ==
    LET is_pub(s) == s.name \in public
        not_pub(s) == s.name \notin public
    IN [public |-> SelectSeq(ins, is_pub), not_public |-> SelectSeq(ins, not_pub)]

\* counters that advance by one per signal instead of by its size
RECURSIVE number_signals_by_one(_, _, _)
number_signals_by_one(list, xtype, acc) ==
    IF list = <<>> THEN acc
    ELSE LET signal == [name |-> Head(list).name, lengths |-> Head(list).dims,
                        local_id |-> acc.local_id,
                        dag_local_id |-> acc.dag_local_id, xtype |-> xtype]
         IN number_signals_by_one(Tail(list), xtype,
                [signals |-> Append(acc.signals, signal),
                 local_id |-> acc.local_id + 1,
                 dag_local_id |-> acc.dag_local_id + 1])

\* one numbering loop: acc holds the signals added so far and the two counters
RECURSIVE number_signals(_, _, _)
number_signals(list, xtype, acc) ==
    IF list = <<>> THEN acc
    ELSE LET signal == [name |-> Head(list).name, lengths |-> Head(list).dims,
                        local_id |-> acc.local_id,
                        dag_local_id |-> acc.dag_local_id, xtype |-> xtype]
         IN number_signals(Tail(list), xtype,
                [signals |-> Append(acc.signals, signal),
                 local_id |-> acc.local_id + size(signal.lengths),
                 dag_local_id |-> acc.dag_local_id + size(signal.lengths)])

\* the numbering with the intermediates before the inputs
export_signals_intermediates_first(outs, ins, public, ints) ==
    LET parts == partition_inputs(ins, public)
        a0 == [signals |-> <<>>, local_id |-> 0, dag_local_id |-> 1]
        a1 == number_signals(outs, "Output", a0)
        a2 == number_signals(ints, "Intermediate", a1)
        a3 == number_signals(parts.public, "Input", a2)
    IN number_signals(parts.not_public, "Input", a3)

\* the four numbering loops, in the order of the code
export_signals(outs, ins, public, ints) ==
    LET parts == partition_inputs(ins, public)
        a0 == [signals |-> <<>>, local_id |-> 0, dag_local_id |-> 1]
        a1 == number_signals(outs, "Output", a0)
        a2 == number_signals(parts.public, "Input", a1)
        a3 == number_signals(parts.not_public, "Input", a2)
    IN number_signals(ints, "Intermediate", a3)

\* the TemplateInstance returned for a catalogue of `instances` instances, or
\* Abort; local_id and dag_local_id are the counters when the function returns
export_to_circuit(instances) ==
    LET clusters == build_clusters(components, connexions, instances)
        triggers == build_triggers(instances, connexions, <<>>)
        numbered == export_signals(outputs, inputs, public_inputs, intermediates)
    IN IF clusters.kind = "abort" \/ triggers.kind = "abort" THEN Abort
       ELSE [kind |-> "instance",
             id |-> instances,
             clusters |-> clusters.out,
             triggers |-> triggers.out,
             components |-> build_components(components),
             has_parallel_sub_cmp |-> has_parallel_sub_cmp,
             signals |-> numbered.signals,
             local_id |-> numbered.local_id,
             dag_local_id |-> numbered.dag_local_id]

\* ------------------------------------------------------------- actions

NoSignals == Len(inputs) + Len(outputs) + Len(intermediates)

NoCalls == Len(components) + Len(connexions) + Len(constraints)

\* ExecutedTemplate::new(public, ..), and a DAG that holds no node for it yet
New(public) ==
    /\ pc = "building"
    /\ public_inputs = public
    /\ inputs = <<>>
    /\ outputs = <<>>
    /\ intermediates = <<>>
    /\ components = <<>>
    /\ constraints = <<>>
    /\ connexions = <<>>
    /\ has_parallel_sub_cmp = FALSE
    /\ dag = EmptyDag
    /\ returned = None
    /\ declared = <<>>
    /\ probe = None

\* an add_input that keeps the last declaration only
AddInput_overwrite(input_name, dimensions) ==
    /\ pc = "building"
    /\ NoSignals < MaxSignals
    /\ inputs' = <<[name |-> input_name, dims |-> dimensions]>>
    /\ returned' = None
    /\ UNCHANGED <<pc, public_inputs, outputs, intermediates, components,
                   constraints, connexions, has_parallel_sub_cmp, dag, probe,
                   declared>>

\* the bounds cut the add_* calls off; the code has no limit
AddInput(input_name, dimensions) ==
    /\ pc = "building"
    /\ NoSignals < MaxSignals
    /\ inputs' = Append(inputs, [name |-> input_name, dims |-> dimensions])
    /\ returned' = None
    /\ UNCHANGED <<pc, public_inputs, outputs, intermediates, components,
                   constraints, connexions, has_parallel_sub_cmp, dag, probe,
                   declared>>

AddOutput(output_name, dimensions) ==
    /\ pc = "building"
    /\ NoSignals < MaxSignals
    /\ outputs' = Append(outputs, [name |-> output_name, dims |-> dimensions])
    /\ returned' = None
    /\ UNCHANGED <<pc, public_inputs, inputs, intermediates, components,
                   constraints, connexions, has_parallel_sub_cmp, dag, probe,
                   declared>>

AddIntermediate(intermediate_name, dimensions) ==
    /\ pc = "building"
    /\ NoSignals < MaxSignals
    /\ intermediates' =
           Append(intermediates, [name |-> intermediate_name, dims |-> dimensions])
    /\ returned' = None
    /\ UNCHANGED <<pc, public_inputs, inputs, outputs, components,
                   constraints, connexions, has_parallel_sub_cmp, dag, probe,
                   declared>>

AddComponent(component_name, dimensions) ==
    /\ pc = "building"
    /\ NoCalls < MaxCalls
    /\ components' = Append(components, [name |-> component_name, dims |-> dimensions])
    /\ declared' = Append(declared, [name |-> component_name, dims |-> dimensions])
    /\ returned' = None
    /\ UNCHANGED <<pc, public_inputs, inputs, outputs, intermediates,
                   constraints, connexions, has_parallel_sub_cmp, dag, probe>>

AddArrow(component_name, data) ==
    /\ pc = "building"
    /\ NoCalls < MaxCalls
    /\ connexions' = Append(connexions, Connexion(component_name, data))
    /\ returned' = None
    /\ UNCHANGED <<pc, public_inputs, inputs, outputs, intermediates, components,
                   constraints, has_parallel_sub_cmp, dag, probe,
                   declared>>

AddConstraint(constraint) ==
    /\ pc = "building"
    /\ NoCalls < MaxCalls
    /\ constraints' = Append(constraints, constraint)
    /\ returned' = None
    /\ UNCHANGED <<pc, public_inputs, inputs, outputs, intermediates, components,
                   connexions, has_parallel_sub_cmp, dag, probe,
                   declared>>

\* the caller inserts a template once
InsertInDag ==
    /\ pc = "building"
    /\ LET d1 == add_node(dag)
           d2 == build_signals(d1, outputs, inputs, public_inputs, intermediates)
           r == build_connexions(components, connexions, d2)
       IN /\ components' = r.components
          /\ connexions' = r.connexions
          /\ has_parallel_sub_cmp' = r.has_parallel_sub_cmp
          /\ dag' = build_constraints(constraints, r.dag)
    /\ pc' = "inserted"
    /\ returned' = None
    /\ UNCHANGED <<public_inputs, inputs, outputs, intermediates, constraints, probe,
                   declared>>

\* returned keeps the argument beside the value
TemplatesInMixedArrays(no_templates) ==
    /\ pc \in {"building", "inserted"}
    /\ returned' = [kind |-> "templates_in_mixed_arrays",
                    no_templates |-> no_templates,
                    value |-> templates_in_mixed_arrays(connexions, no_templates)]
    /\ UNCHANGED <<pc, public_inputs, inputs, outputs, intermediates, components,
                   constraints, connexions, has_parallel_sub_cmp, dag, probe,
                   declared>>

\* export consumes the value: nothing is enabled afterwards, and the fields
\* stay as they were when it was called
ExportToCircuit(instances) ==
    /\ pc \in {"building", "inserted"}
    /\ returned' = export_to_circuit(instances)
    /\ pc' = IF pc = "inserted" THEN "exported" ELSE "exported_uninserted"
    /\ UNCHANGED <<public_inputs, inputs, outputs, intermediates, components,
                   constraints, connexions, has_parallel_sub_cmp, dag, probe,
                   declared>>

\* ------------------------------------------------------ specifications

ArrowData ==
    {[name |-> ComponentNames[i], goes_to |-> t, indexed_with |-> ix] :
        i \in 1 .. Len(ComponentNames), t \in TemplateIds, ix \in IndexVectors}

\* the name of the element an arrow leaves from, as the caller prints it
RECURSIVE IndexSuffix(_)
IndexSuffix(ix) ==
    IF ix = <<>> THEN ""
    ELSE "[" \o ToString(Head(ix)) \o "]" \o IndexSuffix(Tail(ix))

FullName(data) == data.name \o IndexSuffix(data.indexed_with)

\* the signals of a template: declaration, insertion, export against the
\* whole catalogue
Init == \E public \in SUBSET SignalNames : New(public)

Next ==
    \/ \E n \in SignalNames, dims \in Shapes : AddInput(n, dims)
    \/ \E n \in SignalNames, dims \in Shapes : AddOutput(n, dims)
    \/ \E n \in SignalNames, dims \in Shapes : AddIntermediate(n, dims)
    \/ InsertInDag
    \/ ExportToCircuit(Len(Instances))

Spec == Init /\ [][Next]_vars

\* the sub-components of a template: declaration, arrows, insertion, the
\* mixed-array query, export; the template has one output, so that the
\* DAG's signal counter is not 0 when the first edge is added
PresetOutputs == <<[name |-> "a", dims |-> <<MaxDim>>]>>

InitCmp ==
    /\ pc = "building"
    /\ public_inputs = {}
    /\ inputs = <<>>
    /\ outputs = PresetOutputs
    /\ intermediates = <<>>
    /\ components = <<>>
    /\ constraints = <<>>
    /\ connexions = <<>>
    /\ has_parallel_sub_cmp = FALSE
    /\ dag = EmptyDag
    /\ returned = None
    /\ declared = <<>>
    /\ probe = None

NextCmp ==
    \/ \E i \in 1 .. Len(ComponentNames) : AddComponent(ComponentNames[i], <<MaxDim>>)
    \/ \E data \in ArrowData : AddArrow(FullName(data), data)
    \/ AddConstraint(Len(constraints))
    \/ InsertInDag
    \/ \E n \in 1 .. Len(Instances) : TemplatesInMixedArrays(n)
    \/ \E n \in 1 .. Len(Instances) : ExportToCircuit(n)

SpecCmp == InitCmp /\ [][NextCmp]_vars

\* generate_symbols on its own: one call on a DAG that holds the node
RECURSIVE ShapesOfRank(_)
ShapesOfRank(n) ==
    IF n = 0 THEN {<<>>}
    ELSE {<<d>> \o sh : d \in 0 .. MaxDim, sh \in ShapesOfRank(n - 1)}

AllShapes == UNION {ShapesOfRank(n) : n \in 0 .. MaxRank}

\* the SignalConfig values build_signals makes
SignalConfigs(dimensions) ==
    {[signal_type |-> 1, dimensions |-> dimensions, is_public |-> FALSE],
     [signal_type |-> 0, dimensions |-> dimensions, is_public |-> TRUE],
     [signal_type |-> 0, dimensions |-> dimensions, is_public |-> FALSE],
     [signal_type |-> 2, dimensions |-> dimensions, is_public |-> FALSE]}

InitGen ==
    /\ pc = "generate_symbols"
    /\ \E name \in SignalNames, dimensions \in AllShapes :
           \E config \in SignalConfigs(dimensions) :
               probe = [kind |-> "generate_symbols", name |-> name, config |-> config]
    /\ public_inputs = {}
    /\ inputs = <<>>
    /\ outputs = <<>>
    /\ intermediates = <<>>
    /\ components = <<>>
    /\ constraints = <<>>
    /\ connexions = <<>>
    /\ has_parallel_sub_cmp = FALSE
    /\ dag = add_node(EmptyDag)
    /\ returned = None
    /\ declared = <<>>

GenerateSymbols ==
    /\ pc = "generate_symbols"
    /\ dag' = generate_symbols(dag, [name |-> probe.name, dim |-> 0], probe.config)
    /\ pc' = "generated"
    /\ UNCHANGED <<public_inputs, inputs, outputs, intermediates, components,
                   constraints, connexions, has_parallel_sub_cmp, returned, probe,
                   declared>>

NextGen == GenerateSymbols

SpecGen == InitGen /\ [][NextGen]_vars

\* the lattice on its own: the join of three values in both groupings and
\* both orders, and the fold of a connexion list
POSValues == {B, T} \cup {K(id) : id \in 0 .. Len(Instances)}

RECURSIVE ArrowLists(_)
ArrowLists(n) ==
    IF n = 0 THEN {<<>>}
    ELSE ArrowLists(n - 1)
         \cup {Append(l, Connexion(FullName(data), data)) :
                  l \in {x \in ArrowLists(n - 1) : Len(x) = n - 1}, data \in ArrowData}

InitPOS ==
    /\ pc = "pos"
    /\ \/ \E l \in POSValues, m \in POSValues, r \in POSValues :
              probe = [kind |-> "least_upper_bound", l |-> l, m |-> m, r |-> r]
       \/ \E cnns \in ArrowLists(MaxCalls - 1) :
              probe = [kind |-> "apply_pos_to_connexions", cnns |-> cnns]
    /\ public_inputs = {}
    /\ inputs = <<>>
    /\ outputs = <<>>
    /\ intermediates = <<>>
    /\ components = <<>>
    /\ constraints = <<>>
    /\ connexions = <<>>
    /\ has_parallel_sub_cmp = FALSE
    /\ dag = EmptyDag
    /\ returned = None
    /\ declared = <<>>

LeastUpperBound ==
    /\ pc = "pos"
    /\ probe.kind = "least_upper_bound"
    /\ returned' = [kind |-> "pos",
                    lm |-> least_upper_bound(probe.l, probe.m),
                    ml |-> least_upper_bound(probe.m, probe.l),
                    lm_r |-> least_upper_bound(
                                 least_upper_bound(probe.l, probe.m), probe.r),
                    l_mr |-> least_upper_bound(
                                 probe.l, least_upper_bound(probe.m, probe.r))]
    /\ pc' = "joined"
    /\ UNCHANGED <<public_inputs, inputs, outputs, intermediates, components,
                   constraints, connexions, has_parallel_sub_cmp, dag, probe,
                   declared>>

ApplyPosToConnexions ==
    /\ pc = "pos"
    /\ probe.kind = "apply_pos_to_connexions"
    /\ returned' = [kind |-> "solution",
                    solution |-> apply_pos_to_connexions(probe.cnns)]
    /\ pc' = "folded"
    /\ UNCHANGED <<public_inputs, inputs, outputs, intermediates, components,
                   constraints, connexions, has_parallel_sub_cmp, dag, probe,
                   declared>>

NextPOS == LeastUpperBound \/ ApplyPosToConnexions

SpecPOS == InitPOS /\ [][NextPOS]_vars

\* ------------------------------------------------------------ claims

\* the product of a shape, 1 for the empty shape
RECURSIVE ShapeProduct(_)
ShapeProduct(dims) ==
    IF dims = <<>> THEN 1 ELSE Head(dims) * ShapeProduct(Tail(dims))

\* the index tuple of the k-th (0-based) element of a row-major layout
RECURSIVE RowMajorIndex(_, _)
RowMajorIndex(dims, k) ==
    IF dims = <<>> THEN <<>>
    ELSE LET stride == ShapeProduct(Tail(dims))
         IN <<k \div stride>> \o RowMajorIndex(Tail(dims), k % stride)

ScalarName(name, dims, k) == name \o IndexSuffix(RowMajorIndex(dims, k))

\* the registrations of one declared signal, in row-major order
ScalarsOf(name, dims, kind, is_public) ==
    [k \in 1 .. ShapeProduct(dims) |->
        [kind |-> kind, name |-> ScalarName(name, dims, k - 1),
         is_public |-> is_public]]

RECURSIVE ScalarsOfAll(_, _, _)
ScalarsOfAll(list, kind, is_public) ==
    IF list = <<>> THEN <<>>
    ELSE ScalarsOf(Head(list).name, Head(list).dims, kind, is_public)
         \o ScalarsOfAll(Tail(list), kind, is_public)

IsPublic(s) == s.name \in public_inputs
IsPrivate(s) == s.name \notin public_inputs

KindOfSignalType(signal_type) ==
    IF signal_type = 0 THEN "input"
    ELSE IF signal_type = 1 THEN "output" ELSE "intermediate"

\* C4: one call of generate_symbols for a name and a shape registers exactly
\* the product of the shape many scalars (one, named by the bare name, for
\* the empty shape; none when a dimension is 0), under pairwise distinct
\* names name[i0]...[in-1] with 0 <= ik < dk, in row-major order.
C4_GenerateSymbolsRowMajor ==
    pc = "generated" =>
        LET dims == probe.config.dimensions
            n == ShapeProduct(dims)
            regs == dag.signals
        IN /\ Len(regs) = n
           /\ (dims = <<>> => regs = <<[kind |-> KindOfSignalType(probe.config.signal_type),
                                       name |-> probe.name,
                                       is_public |-> probe.config.is_public]>>)
           /\ ((\E j \in 1 .. Len(dims) : dims[j] = 0) => regs = <<>>)
           /\ \A k \in 1 .. n :
                  /\ regs[k].kind = KindOfSignalType(probe.config.signal_type)
                  /\ regs[k].is_public = probe.config.is_public
                  /\ LET ix == RowMajorIndex(dims, k - 1)
                     IN /\ Len(ix) = Len(dims)
                        /\ \A j \in 1 .. Len(dims) : ix[j] >= 0 /\ ix[j] < dims[j]
                        /\ regs[k].name = probe.name \o IndexSuffix(ix)
           /\ \A k1 \in 1 .. n, k2 \in 1 .. n :
                  k1 # k2 => regs[k1].name # regs[k2].name

C4_Witness ==
    /\ pc = "generated"
    /\ probe.name = "a"
    /\ probe.config.dimensions = <<2, 1, 2>>
    /\ Len(dag.signals) = 4
    /\ dag.signals[2].name = "a[0][0][1]"
    /\ dag.signals[3].name = "a[1][0][0]"

\* C1: insert_in_dag registers every output scalar, then every scalar of the
\* inputs named in public_inputs, then every scalar of the other inputs, then
\* every intermediate scalar, each category in its add_* order; the
\* registrations depend on the three collectors alone, not on how the add_*
\* calls of different categories were interleaved.
C1_RegistrationOrder ==
    pc \in {"inserted", "exported"} =>
        dag.signals =
            ScalarsOfAll(outputs, "output", FALSE)
            \o ScalarsOfAll(SelectSeq(inputs, IsPublic), "input", TRUE)
            \o ScalarsOfAll(SelectSeq(inputs, IsPrivate), "input", FALSE)
            \o ScalarsOfAll(intermediates, "intermediate", FALSE)

C1_Witness ==
    /\ pc = "inserted"
    /\ public_inputs = {"a"}
    /\ Len(inputs) = 2 /\ inputs[1].name = "b" /\ inputs[2].name = "a"
    /\ inputs[1].dims = <<>> /\ inputs[2].dims = <<>>
    /\ Len(outputs) = 1 /\ outputs[1].dims = <<MaxDim>>
    /\ dag.signals[1].kind = "output"
    /\ dag.signals[MaxDim + 1] = [kind |-> "input", name |-> "a", is_public |-> TRUE]
    /\ dag.signals[MaxDim + 2] = [kind |-> "input", name |-> "b", is_public |-> FALSE]

KindOfXtype(xtype) ==
    IF xtype = "Input" THEN "input"
    ELSE IF xtype = "Output" THEN "output" ELSE "intermediate"

\* C2: after insert_in_dag and export_to_circuit, every exported Signal with
\* local_id L and size s (the product of its shape, 1 for the empty shape, 0
\* with a 0 dimension) owns the registrations at 0-based positions L .. L+s-1:
\* they are that signal's scalars, of its category; and the number of
\* registrations is the final local_id counter.
C2_NumberingMatchesRegistration ==
    (pc = "exported" /\ returned.kind = "instance") =>
        /\ Len(dag.signals) = returned.local_id
        /\ \A i \in 1 .. Len(returned.signals) :
               LET sig == returned.signals[i]
                   L == sig.local_id
                   s == ShapeProduct(sig.lengths)
               IN /\ L + s <= Len(dag.signals)
                  /\ \A k \in 1 .. s :
                         /\ dag.signals[L + k].kind = KindOfXtype(sig.xtype)
                         /\ dag.signals[L + k].name =
                                ScalarName(sig.name, sig.lengths, k - 1)
                         /\ dag.signals[L + k].is_public =
                                (sig.xtype = "Input" /\ sig.name \in public_inputs)

C2_Witness ==
    /\ pc = "exported" /\ returned.kind = "instance"
    /\ Len(returned.signals) = 3
    /\ returned.signals[1].lengths = <<0>>
    /\ returned.signals[2].lengths = <<MaxDim, MaxDim>>
    /\ returned.signals[3].lengths = <<>>
    /\ returned.signals[3].local_id = MaxDim * MaxDim
    /\ returned.signals[3].xtype = "Intermediate"
    /\ dag.signals[MaxDim * MaxDim + 1].kind = "intermediate"

\* C3: the Signal list of an exported instance holds the outputs, the public
\* inputs, the private inputs and the intermediates in that order; the first
\* local_id is 0, each next local_id is the previous one plus the previous
\* signal's flattened size, and dag_local_id = local_id + 1 throughout.
C3_ContiguousNumbering ==
    (pc \in {"exported", "exported_uninserted"} /\ returned.kind = "instance") =>
        LET sigs == returned.signals
            decl == outputs \o SelectSeq(inputs, IsPublic)
                    \o SelectSeq(inputs, IsPrivate) \o intermediates
            xtypes == [i \in 1 .. Len(outputs) |-> "Output"]
                      \o [i \in 1 .. Len(inputs) |-> "Input"]
                      \o [i \in 1 .. Len(intermediates) |-> "Intermediate"]
        IN /\ Len(sigs) = Len(decl)
           /\ \A i \in 1 .. Len(sigs) :
                  /\ sigs[i].name = decl[i].name
                  /\ sigs[i].lengths = decl[i].dims
                  /\ sigs[i].xtype = xtypes[i]
                  /\ sigs[i].dag_local_id = sigs[i].local_id + 1
                  /\ sigs[i].local_id =
                         IF i = 1 THEN 0
                         ELSE sigs[i - 1].local_id + ShapeProduct(sigs[i - 1].lengths)

C3_Witness ==
    /\ pc = "exported" /\ returned.kind = "instance"
    /\ public_inputs = {"b"}
    /\ Len(outputs) = 1 /\ Len(inputs) = 2
    /\ inputs[1].name = "a" /\ inputs[2].name = "b"
    /\ Len(returned.signals) = 3
    /\ returned.signals[1].lengths = <<MaxDim, MaxDim>>
    /\ returned.signals[2].name = "b"
    /\ returned.signals[2].lengths = <<MaxDim>>
    /\ returned.signals[3].name = "a"
    /\ returned.signals[3].local_id = MaxDim * MaxDim + MaxDim
    /\ returned.signals[3].dag_local_id = MaxDim * MaxDim + MaxDim + 1

PublicInputsDeclared ==
    \A name \in public_inputs : \E i \in 1 .. Len(inputs) : inputs[i].name = name

\* C7, as claimed: in every reachable state, every name in public_inputs is
\* the name of some entry of the inputs collector.
C7_PublicInputsSubsetOfInputs == PublicInputsDeclared

\* C7, amended: new does not establish the inclusion (the public names are
\* given before any input is declared), and every operation preserves it:
\* from a state in which every name in public_inputs names an entry of the
\* inputs collector, every step leads to such a state.
C7_InclusionPreserved ==
    [][PublicInputsDeclared => PublicInputsDeclared']_vars

C7_Witness ==
    /\ pc = "inserted"
    /\ public_inputs = {"a"}
    /\ Len(inputs) = 2
    /\ inputs[1].name = "b" /\ inputs[2].name = "a"
    /\ PublicInputsDeclared

\* the connexions of an array, and the targets they go to
ConnexionsOf(cnns, name) == {j \in 1 .. Len(cnns) : cnns[j].inspect.name = name}

TargetsOf(cnns, name) == {cnns[j].inspect.goes_to : j \in ConnexionsOf(cnns, name)}

ArrayNames(cnns) == {cnns[j].inspect.name : j \in 1 .. Len(cnns)}

ClusterFits(cluster, name) ==
    /\ cluster.cmp_name = name
    /\ cluster.length = Cardinality(ConnexionsOf(connexions, name))
    /\ (cluster.xtype.kind = "Uniform") = (Cardinality(TargetsOf(connexions, name)) = 1)
    /\ (cluster.xtype.kind = "Uniform" => cluster.xtype.instance_id \in TargetsOf(connexions, name))
    /\ (cluster.xtype.kind = "Mixed") = (Cardinality(TargetsOf(connexions, name)) >= 2)

\* C5, as claimed: after insert_in_dag and export_to_circuit, every
\* sub-component array name that has at least one connexion has exactly one
\* TriggerCluster, whose length is the number of connexions of that name; the
\* cluster is Uniform (with the common target id) iff all connexions of the
\* array go to the same target, and Mixed iff two of them differ.
C5_OneClusterPerUsedArray ==
    (pc = "exported" /\ returned.kind = "instance") =>
        \A name \in ArrayNames(connexions) :
            /\ Cardinality({i \in 1 .. Len(returned.clusters) :
                               returned.clusters[i].cmp_name = name}) = 1
            /\ \A i \in 1 .. Len(returned.clusters) :
                   returned.clusters[i].cmp_name = name
                       => ClusterFits(returned.clusters[i], name)

\* what the code does give: the clusters follow the component catalogue, one
\* per catalogue entry, in catalogue order, each fitting its array
ClustersFollowCatalogue ==
    (pc = "exported" /\ returned.kind = "instance") =>
        /\ Len(returned.clusters) = Len(components)
        /\ \A i \in 1 .. Len(components) :
               ClusterFits(returned.clusters[i], components[i].name)

IsUsed(cmp) == cmp.name \in ArrayNames(connexions)

RECURSIVE CatalogueOf(_)
CatalogueOf(cmps) ==
    IF cmps = <<>> THEN <<>>
    ELSE <<[name |-> Head(cmps).name, lengths |-> Head(cmps).dims]>>
         \o CatalogueOf(Tail(cmps))

\* C6: the component catalogue of a returned TemplateInstance names no array
\* without a connexion: after insert_in_dag the catalogue is the declared
\* arrays that have a connexion, in add_component order, and so is the
\* catalogue of the instance; an export without insert_in_dag returns an
\* instance only if every declared array has a connexion, and aborts otherwise.
C6_NoUnusedComponentExported ==
    /\ pc \in {"inserted", "exported"} =>
           components = SelectSeq(declared, IsUsed)
    /\ (pc \in {"exported", "exported_uninserted"} /\ returned.kind = "instance") =>
           /\ returned.components = CatalogueOf(SelectSeq(declared, IsUsed))
           /\ \A i \in 1 .. Len(returned.components) :
                  returned.components[i].name \in ArrayNames(connexions)
    /\ (pc = "exported_uninserted"
            /\ \E i \in 1 .. Len(declared) : ~IsUsed(declared[i])) =>
           returned.kind = "abort"

C6_Witness ==
    /\ pc = "exported" /\ returned.kind = "instance"
    /\ Len(declared) = 2
    /\ declared[1].name = "d" /\ declared[2].name = "c"
    /\ ArrayNames(connexions) = {"c"}
    /\ returned.components = <<[name |-> "c", lengths |-> <<MaxDim>>]>>

RECURSIVE IndexLeq(_, _)
IndexLeq(l, r) ==
    \/ l = <<>>
    \/ /\ r # <<>>
       /\ \/ Head(l) < Head(r)
          \/ Head(l) = Head(r) /\ IndexLeq(Tail(l), Tail(r))

KeyLeq(l, r) ==
    \/ NameRank(l.name) < NameRank(r.name)
    \/ l.name = r.name /\ IndexLeq(l.indexed_with, r.indexed_with)

\* C10: until insert_in_dag the four dag_ fields of every connexion are 0;
\* after it the connexions are in ascending order of (array name, index), the
\* i-th edge of the DAG is the i-th connexion's, dag_offset and
\* dag_component_offset are the DAG's signal and component counters read
\* right before that edge and dag_jump and dag_component_jump the growth of
\* the counters by that edge, so that each connexion's offsets are the
\* previous one's offsets plus the previous one's jumps.
C10_ConnexionOffsets ==
    /\ pc \in {"building", "exported_uninserted"} =>
           \A i \in 1 .. Len(connexions) :
               /\ connexions[i].dag_offset = 0
               /\ connexions[i].dag_component_offset = 0
               /\ connexions[i].dag_jump = 0
               /\ connexions[i].dag_component_jump = 0
    /\ pc \in {"inserted", "exported"} =>
           /\ Len(dag.edges) = Len(connexions)
           /\ \A i \in 1 .. Len(connexions) :
                  LET cnn == connexions[i]
                      edge == dag.edges[i]
                  IN /\ edge.to = cnn.inspect.goes_to
                     /\ edge.label = cnn.full_name
                     /\ cnn.dag_offset = edge.out_before
                     /\ cnn.dag_component_offset = edge.cmp_before
                     /\ cnn.dag_jump = edge.out_after - edge.out_before
                     /\ cnn.dag_component_jump = edge.cmp_after - edge.cmp_before
           /\ \A i \in 1 .. (Len(connexions) - 1) :
                  /\ KeyLeq(connexions[i].inspect, connexions[i + 1].inspect)
                  /\ connexions[i + 1].dag_offset =
                         connexions[i].dag_offset + connexions[i].dag_jump
                  /\ connexions[i + 1].dag_component_offset =
                         connexions[i].dag_component_offset
                             + connexions[i].dag_component_jump

\* the connexions (B,1),(A,0),(A,2),(B,0) of the sort example, with the
\* names c, d and the indices 0, 1 of the model
C10_Witness ==
    /\ pc = "inserted"
    /\ Len(connexions) = 4
    /\ connexions[1].full_name = "c[0]"
    /\ connexions[2].full_name = "c[1]"
    /\ connexions[3].full_name = "d[0]"
    /\ connexions[4].full_name = "d[1]"
    /\ connexions[1].inspect.goes_to = 1
    /\ connexions[1].dag_offset = MaxDim
    /\ connexions[2].dag_offset = MaxDim + 3
    /\ connexions[4].dag_jump > 0

\* the least upper bound of the lattice B < K(id) < T
Join(l, r) ==
    IF l = B THEN r
    ELSE IF r = B THEN l
    ELSE IF l = r THEN l ELSE T

\* C8: least_upper_bound is the join of B < K(id) < T (B join x = x,
\* K(a) join K(a) = K(a), K(a) join K(b) = T for a # b, T join x = T); it is
\* commutative and associative, and the fold of an array's connexion targets
\* is K(t) when every connexion of the array goes to t and T otherwise,
\* whatever the order of the connexions.
C8_LeastUpperBoundIsJoin ==
    /\ pc = "joined" =>
           /\ returned.lm = Join(probe.l, probe.m)
           /\ (probe.l = B => returned.lm = probe.m)
           /\ (probe.l = T \/ probe.m = T => returned.lm = T)
           /\ (probe.l.tag = "K" /\ probe.m.tag = "K" =>
                   returned.lm = IF probe.l.v = probe.m.v THEN probe.l ELSE T)
           /\ returned.lm = returned.ml
           /\ returned.lm_r = returned.l_mr
    /\ pc = "folded" =>
           /\ DOMAIN returned.solution = ArrayNames(probe.cnns)
           /\ \A name \in ArrayNames(probe.cnns) :
                  returned.solution[name] =
                      IF Cardinality(TargetsOf(probe.cnns, name)) = 1
                      THEN K(CHOOSE t \in TargetsOf(probe.cnns, name) : TRUE)
                      ELSE T

C8_Witness ==
    /\ pc = "joined"
    /\ probe.l = K(0) /\ probe.m = B /\ probe.r = K(1)
    /\ returned.lm = K(0)
    /\ returned.lm_r = T
    /\ returned.l_mr = T

====
